---- MODULE Spec2Model ----
(***************************************************************************)
(* Link Bucket (src/main.py): a Streamlit page holding a tree of folders   *)
(* and links in st.session_state, with path-addressed insertion and        *)
(* deletion, a selection set of link ids, a navigation state and a batch   *)
(* "open selected links" action.                                           *)
(*                                                                         *)
(* Python values are modelled as follows.                                  *)
(*   dict            record with the same keys                             *)
(*   list            sequence                                              *)
(*   set             set                                                   *)
(*   str (ids, names) string                                               *)
(*   str (urls)      sequence of one-character strings, so that            *)
(*                   startswith and + are computed                         *)
(*   None            the record None (for a node) or the empty option      *)
(*                   NoPath (for navigate_to_path)                         *)
(*   bool results    the strings "True" and "False"; an uncaught KeyError  *)
(*                   is the result "KeyError"                              *)
(* A function that reads or writes st.session_state takes the session      *)
(* state record ss and returns [ss |-> the state afterwards, ret |-> its   *)
(* result].                                                                *)
(***************************************************************************)
EXTENDS Integers, Sequences, FiniteSets, TLC

VARIABLES link_tree, selected_links, current_path, expanded_folders,
          navigate_to_path, issued, pc, browser, call, pre

vars == <<link_tree, selected_links, current_path, expanded_folders,
          navigate_to_path, issued, pc, browser, call, pre>>

(***************************************************************************)
(* Bounds of the model.                                                    *)
(***************************************************************************)
\* how many nodes are ever created (uuids drawn) in one behaviour
MaxNodes == 3
\* longest path handed to a tree function called directly
MaxPathLen == 3

UuidName == <<"u1", "u2", "u3", "u4", "u5", "u6">>
UUIDs == {UuidName[i] : i \in 1..MaxNodes}
\* what the user may have typed into a name field when a button is pressed
FolderNameInputs == {"", "Work"}
LinkNameInputs == {"", "Docs"}
\* what the user may have typed into the URL field
UrlInputs == {<<>>, <<"d">>, <<"h", "t", "t", "p", "s", ":", "/", "/", "d">>}
Dates == {"2024-01-01 00:00:00"}

(***************************************************************************)
(* Values.                                                                 *)
(***************************************************************************)
None == [type |-> "None"]
KeyError == [type |-> "KeyError"]
NoPath == <<>>
SomePath(path) == <<path>>

\* main.py:13-27, the session state of a new session
InitialSessionState ==
    [link_tree |-> [name |-> "Root", id |-> "root", type |-> "folder",
                    children |-> <<>>],
     selected_links |-> {},
     current_path |-> <<"root">>,
     expanded_folders |-> {"root"},
     navigate_to_path |-> NoPath]

\* st.session_state as one record
session_state ==
    [link_tree |-> link_tree,
     selected_links |-> selected_links,
     current_path |-> current_path,
     expanded_folders |-> expanded_folders,
     navigate_to_path |-> navigate_to_path]

\* path[1:]
Rest(path) == SubSeq(path, 2, Len(path))

(***************************************************************************)
(* Tree navigation and manipulation, main.py:31-131.                       *)
(***************************************************************************)
\* main.py:39-43: the position of the first child with this id, 0 if none
child_index(node, node_id) ==
    LET hits == {i \in 1..Len(node.children) : node.children[i].id = node_id}
    IN  IF hits = {} THEN 0 ELSE CHOOSE i \in hits : \A j \in hits : i <= j

\* main.py:37-46: the loop over path[1:]; node['children'] of a link raises
RECURSIVE descend(_, _)
descend(node, ids) ==
    IF ids = <<>> THEN node
    ELSE IF "children" \notin DOMAIN node THEN KeyError
    ELSE LET i == child_index(node, Head(ids))
         IN  IF i = 0 THEN None ELSE descend(node.children[i], Tail(ids))

get_node_by_path(ss, path) ==
    IF path = <<"root">> THEN ss.link_tree
    ELSE descend(ss.link_tree, Rest(path))

\* The tree with the children list of the node that descend(node, ids)
\* reaches replaced: the effect of mutating the dict get_node_by_path
\* returned, which is the dict inside the tree and not a copy.
RECURSIVE set_children(_, _, _)
set_children(node, ids, children) ==
    IF ids = <<>> THEN [node EXCEPT !.children = children]
    ELSE LET i == child_index(node, Head(ids))
         IN  [node EXCEPT !.children[i] = set_children(@, Tail(ids), children)]

\* add_node as it would be if it appended to the root instead of the parent
add_node_at_root(ss, parent_path, node) ==
    LET parent == get_node_by_path(ss, parent_path)
    IN  IF parent = KeyError THEN [ss |-> ss, ret |-> "KeyError"]
        ELSE IF parent # None /\ parent.type = "folder"
        THEN [ss |-> [ss EXCEPT !.link_tree.children = Append(@, node)],
              ret |-> "True"]
        ELSE [ss |-> ss, ret |-> "False"]

add_node(ss, parent_path, node) ==
    LET parent == get_node_by_path(ss, parent_path)
    IN  IF parent = KeyError THEN [ss |-> ss, ret |-> "KeyError"]
        ELSE IF parent # None /\ parent.type = "folder"
        THEN [ss |-> [ss EXCEPT !.link_tree =
                        set_children(@, Rest(parent_path),
                                     Append(parent.children, node))],
              ret |-> "True"]
        ELSE [ss |-> ss, ret |-> "False"]

\* delete_node as it would be if it flipped the folder's expansion instead of
\* discarding it
delete_node_flipping_expansion(ss, node_id, parent_path) ==
    LET parent == get_node_by_path(ss, parent_path)
    IN  IF parent = KeyError THEN [ss |-> ss, ret |-> "KeyError"]
        ELSE IF parent # None
        THEN IF "children" \notin DOMAIN parent
             THEN [ss |-> ss, ret |-> "KeyError"]
             ELSE [ss |-> [ss EXCEPT
                        !.link_tree =
                            set_children(@, Rest(parent_path),
                                SelectSeq(parent.children,
                                          LAMBDA child : child.id # node_id)),
                        !.selected_links = @ \ {node_id},
                        !.expanded_folders =
                            IF node_id \in @ THEN @ \ {node_id}
                            ELSE @ \cup {node_id}],
                   ret |-> "True"]
        ELSE [ss |-> ss, ret |-> "False"]

\* Both call sites (main.py:260, 305) pass parent_path, so the default of
\* main.py:60-61 is never taken.
delete_node(ss, node_id, parent_path) ==
    LET parent == get_node_by_path(ss, parent_path)
    IN  IF parent = KeyError THEN [ss |-> ss, ret |-> "KeyError"]
        ELSE IF parent # None
        THEN IF "children" \notin DOMAIN parent
             THEN [ss |-> ss, ret |-> "KeyError"]
             ELSE [ss |-> [ss EXCEPT
                        !.link_tree =
                            set_children(@, Rest(parent_path),
                                SelectSeq(parent.children,
                                          LAMBDA child : child.id # node_id)),
                        !.selected_links = @ \ {node_id},
                        !.expanded_folders = @ \ {node_id}],
                   ret |-> "True"]
        ELSE [ss |-> ss, ret |-> "False"]

\* main.py:84-89, with all_links threaded through the recursion
RECURSIVE traverse_links(_, _)
RECURSIVE traverse_links_each(_, _)
traverse_links(node, all_links) ==
    IF node.type = "link" THEN Append(all_links, node)
    ELSE IF node.type = "folder" THEN traverse_links_each(node.children, all_links)
    ELSE all_links

\* the loop of main.py:88 as it would be if it ran over the children backwards
traverse_links_each_reversed(children, all_links) ==
    IF children = <<>> THEN all_links
    ELSE traverse_links_each(SubSeq(children, 1, Len(children) - 1),
                             traverse_links(children[Len(children)], all_links))

traverse_links_each(children, all_links) ==
    IF children = <<>> THEN all_links
    ELSE traverse_links_each(Tail(children),
                             traverse_links(Head(children), all_links))

get_all_links(ss) == traverse_links(ss.link_tree, <<>>)

\* main.py:99-105, with folder_count threaded through the recursion
RECURSIVE traverse_folders(_, _)
RECURSIVE traverse_folders_each(_, _)
traverse_folders(node, folder_count) ==
    IF node.type = "folder" THEN traverse_folders_each(node.children, folder_count)
    ELSE folder_count

\* the loop of main.py:102-105 as it would be if it did not go into the
\* folders it counts
traverse_folders_each_flat(children, folder_count) ==
    IF children = <<>> THEN folder_count
    ELSE traverse_folders_each(Tail(children),
            IF Head(children).type = "folder"
            THEN folder_count + 1
            ELSE folder_count)

traverse_folders_each(children, folder_count) ==
    IF children = <<>> THEN folder_count
    ELSE traverse_folders_each(Tail(children),
            IF Head(children).type = "folder"
            THEN traverse_folders(Head(children), folder_count + 1)
            ELSE folder_count)

count_all_folders(ss) == traverse_folders(ss.link_tree, 0)

\* get_breadcrumb_paths as it would be if it appended path[:i]
get_breadcrumb_paths_short(path) == [i \in 1..Len(path) |-> SubSeq(path, 1, i - 1)]

get_breadcrumb_paths(path) == [i \in 1..Len(path) |-> SubSeq(path, 1, i)]

\* main.py:124-129: one pass over path[1:]; an id that is no child of
\* current is skipped, and current['children'] of a link raises
RECURSIVE breadcrumb_walk(_, _, _)
breadcrumb_walk(current, ids, names) ==
    IF ids = <<>> THEN names
    ELSE IF "children" \notin DOMAIN current THEN <<"KeyError">>
    ELSE LET i == child_index(current, Head(ids))
         IN  IF i = 0 THEN breadcrumb_walk(current, Tail(ids), names)
             ELSE breadcrumb_walk(current.children[i], Tail(ids),
                                  Append(names, current.children[i].name))

get_breadcrumb_names(ss, path) ==
    breadcrumb_walk(ss.link_tree, Rest(path), <<"Root">>)

(***************************************************************************)
(* UI functions, main.py:135-214.                                          *)
(***************************************************************************)
\* str(uuid.uuid4()): a value no earlier call returned.  The names carry no
\* meaning, so the n-th call is given the n-th name.
\* uuid4 as it would be if it could return a value again
uuid4_repeating(n) == UuidName[1]

uuid4(n) == UuidName[n + 1]

\* str.startswith
startswith(s, prefix) ==
    Len(s) >= Len(prefix) /\ SubSeq(s, 1, Len(prefix)) = prefix

http == <<"h", "t", "t", "p", ":", "/", "/">>
https == <<"h", "t", "t", "p", "s", ":", "/", "/">>

\* main.py:153-155
normalize_url(link) ==
    IF ~(startswith(link, http) \/ startswith(link, https))
    THEN https \o link ELSE link

\* new_folder_name is the content of the text field, id the uuid drawn and
\* now the formatted clock; clearing the text field is not modelled.
add_folder(ss, new_folder_name, id, now) ==
    IF new_folder_name # ""
    THEN add_node(ss, ss.current_path,
                  [id |-> id, name |-> new_folder_name, type |-> "folder",
                   children |-> <<>>, date_added |-> now])
    ELSE [ss |-> ss, ret |-> "None"]

add_link(ss, new_link, link_name, id, now) ==
    IF new_link # <<>> /\ link_name # ""
    THEN add_node(ss, ss.current_path,
                  [id |-> id, name |-> link_name, url |-> normalize_url(new_link),
                   type |-> "link", date_added |-> now])
    ELSE [ss |-> ss, ret |-> "None"]

\* navigate_to as it would be if it expanded the folders of the path and
\* collapsed every other one
navigate_to_collapsing(ss, path) ==
    [ss EXCEPT !.current_path = path,
               !.expanded_folders = {"root"} \cup {path[i] : i \in 2..Len(path)}]

navigate_to(ss, path) ==
    [ss EXCEPT !.current_path = path,
               !.expanded_folders = @ \cup {path[i] : i \in 2..Len(path)}]

\* main.py:181; the st.rerun() of main.py:182 is the caller's pc' = "rerun"
set_navigate_path(ss, path) == [ss EXCEPT !.navigate_to_path = SomePath(path)]

toggle_folder_expansion(ss, folder_id) ==
    IF folder_id \in ss.expanded_folders
    THEN [ss EXCEPT !.expanded_folders = @ \ {folder_id}]
    ELSE [ss EXCEPT !.expanded_folders = @ \cup {folder_id}]

\* select_all_links as it would be if it added to the selection instead of
\* replacing it
select_all_links_adding(ss) ==
    LET all_links == get_all_links(ss)
    IN  [ss EXCEPT !.selected_links =
                      @ \cup {all_links[i].id : i \in 1..Len(all_links)}]

select_all_links(ss) ==
    LET all_links == get_all_links(ss)
    IN  [ss EXCEPT !.selected_links =
                      {all_links[i].id : i \in 1..Len(all_links)}]

deselect_all_links(ss) == [ss EXCEPT !.selected_links = {}]

\* webbrowser.open_new_tab(url): the browser collaborator.  It returns True
\* when a browser was launched and False when none could be; which links it
\* fails for is the environment's choice, the set broken.  The entry keeps
\* the id of the link the url was taken from, which the browser never sees.
open_new_tab(link, broken) ==
    [id |-> link.id, url |-> link.url, ok |-> link.id \notin broken]

\* main.py:208-212: the loop; opened is what the browser was asked so far.
\* The result of open_new_tab is not looked at, and time.sleep changes
\* nothing.
RECURSIVE open_each(_, _, _, _)
\* the loop as it would be if it opened every link, selected or not
open_each_unfiltered(links, selected, broken, opened) ==
    IF links = <<>> THEN opened
    ELSE open_each(Tail(links), selected, broken,
                   Append(opened, open_new_tab(Head(links), broken)))

\* the loop as it would be if a failed launch ended it
open_each_until_failure(links, selected, broken, opened) ==
    IF links = <<>> THEN opened
    ELSE IF Head(links).id \in selected
    THEN IF Head(links).id \in broken
         THEN Append(opened, open_new_tab(Head(links), broken))
         ELSE open_each(Tail(links), selected, broken,
                        Append(opened, open_new_tab(Head(links), broken)))
    ELSE open_each(Tail(links), selected, broken, opened)

open_each(links, selected, broken, opened) ==
    IF links = <<>> THEN opened
    ELSE open_each(Tail(links), selected, broken,
                   IF Head(links).id \in selected
                   THEN Append(opened, open_new_tab(Head(links), broken))
                   ELSE opened)

open_selected_links(ss, broken) ==
    IF ss.selected_links # {}
    THEN [ss |-> ss, ret |-> "True",
          opened |-> open_each(get_all_links(ss), ss.selected_links, broken, <<>>)]
    ELSE [ss |-> ss, ret |-> "False", opened |-> <<>>]

(***************************************************************************)
(* The page script, main.py:217-413.  Streamlit runs it from the top on    *)
(* every user event and after every st.rerun(); a callback given as        *)
(* on_click runs before the script, and a button tested with `if` answers  *)
(* True where the script renders it.                                       *)
(***************************************************************************)
\* main.py:218-220
apply_pending_navigation(ss) ==
    IF ss.navigate_to_path # NoPath
    THEN [navigate_to(ss, ss.navigate_to_path[1]) EXCEPT !.navigate_to_path = NoPath]
    ELSE ss

\* main.py:224-306: the rows render_tree draws for node, each with the path
\* argument its buttons use; level only indents.
RECURSIVE render_tree(_, _, _)
render_tree(ss, node, path) ==
    {[node |-> node, path |-> path]} \cup
    (IF node.type = "folder" /\ node.id \in ss.expanded_folders
     THEN UNION {render_tree(ss, node.children[i], Append(path, node.children[i].id)) :
                    i \in 1..Len(node.children)}
     ELSE {})

\* the rows of the page as they would be if the current folder were drawn
\* as a row itself, above its children
page_rows_from_current(ss) ==
    LET current_node == get_node_by_path(ss, ss.current_path)
    IN  IF current_node \notin {None, KeyError} /\ "children" \in DOMAIN current_node
        THEN {[node |-> current_node, path |-> ss.current_path]} \cup
             UNION {render_tree(ss, current_node.children[i], ss.current_path) :
                       i \in 1..Len(current_node.children)}
        ELSE {}

\* main.py:366-373: the rows of the page
page_rows(ss) ==
    LET current_node == get_node_by_path(ss, ss.current_path)
    IN  IF current_node \notin {None, KeyError} /\ "children" \in DOMAIN current_node
        THEN UNION {render_tree(ss, current_node.children[i], ss.current_path) :
                       i \in 1..Len(current_node.children)}
        ELSE {}

\* path[:-1] if len(path) > 1 else path  (main.py:260, 305)
delete_parent_path(path) ==
    IF Len(path) > 1 THEN SubSeq(path, 1, Len(path) - 1) ELSE path

\* script_run as it would be without the else branch of main.py:374-376
script_run_without_recovery(ss) ==
    [ss |-> apply_pending_navigation(ss), pc |-> "idle"]

\* One run of the script in which no widget answers: the pending navigation
\* is applied, and an unresolved current_path asks for the root and a rerun
\* (main.py:374-376).  A KeyError (main.py:317, 342, 368) ends the run.
script_run(ss) ==
    LET s1 == apply_pending_navigation(ss)
        current_node == get_node_by_path(s1, s1.current_path)
    IN  IF current_node = None
        THEN [ss |-> set_navigate_path(s1, <<"root">>), pc |-> "rerun"]
        ELSE [ss |-> s1, pc |-> "idle"]

\* The handlers of the buttons of a row, main.py:235-237, 242-248, 255-261,
\* 277-286, 300-306.
click_toggle(ss, row) == toggle_folder_expansion(ss, row.node.id)

click_folder(ss, row) == set_navigate_path(ss, Append(row.path, row.node.id))

click_delete(ss, row) == delete_node(ss, row.node.id, delete_parent_path(row.path))

\* main.py:277-286: what the script does with the answer of a link's
\* checkbox, True when it is checked
checkbox(ss, node, checked) ==
    IF checked
    THEN IF node.id \notin ss.selected_links
         THEN [ss EXCEPT !.selected_links = @ \cup {node.id}]
         ELSE ss
    ELSE IF node.id \in ss.selected_links
         THEN [ss EXCEPT !.selected_links = @ \ {node.id}]
         ELSE ss

\* main.py:276-286 for the checkbox the user flips: it answers the opposite
\* of is_selected.  Every other checkbox answers is_selected, for which
\* these lines change nothing.
click_checkbox(ss, row) ==
    checkbox(ss, row.node, row.node.id \notin ss.selected_links)

\* main.py:348-354: the breadcrumb buttons, as (name, path) pairs
breadcrumb_buttons(ss) ==
    LET breadcrumb_names == get_breadcrumb_names(ss, ss.current_path)
        breadcrumb_paths == get_breadcrumb_paths(ss.current_path)
        n == IF Len(breadcrumb_names) < Len(breadcrumb_paths)
             THEN Len(breadcrumb_names) ELSE Len(breadcrumb_paths)
    IN  {[name |-> breadcrumb_names[i], path |-> breadcrumb_paths[i]] :
            i \in {j \in 1..n : j - 1 < Len(breadcrumb_names) - 1
                                 \/ Len(ss.current_path) = 1}}

(***************************************************************************)
(* The state machine: one action per user event, and the rerun.            *)
(***************************************************************************)
Becomes(ss) ==
    /\ link_tree' = ss.link_tree
    /\ selected_links' = ss.selected_links
    /\ current_path' = ss.current_path
    /\ expanded_folders' = ss.expanded_folders
    /\ navigate_to_path' = ss.navigate_to_path

Init ==
    /\ link_tree = InitialSessionState.link_tree
    /\ selected_links = InitialSessionState.selected_links
    /\ current_path = InitialSessionState.current_path
    /\ expanded_folders = InitialSessionState.expanded_folders
    /\ navigate_to_path = InitialSessionState.navigate_to_path
    /\ issued = 0
    /\ pc = "idle"
    /\ browser = <<>>
    /\ call = [op |-> "start"]
    /\ pre = InitialSessionState

\* "Create Folder", main.py:324
AddFolder ==
    /\ pc = "idle"
    /\ \E new_folder_name \in FolderNameInputs, now \in Dates :
          /\ new_folder_name # "" => issued < MaxNodes
          /\ LET r == add_folder(session_state, new_folder_name, uuid4(issued), now)
                 run == script_run(r.ss)
             IN  /\ Becomes(run.ss)
                 /\ pc' = run.pc
                 /\ call' = [op |-> "add_folder", name |-> new_folder_name,
                             id |-> IF new_folder_name # "" THEN uuid4(issued) ELSE "",
                             ret |-> r.ret]
          /\ issued' = IF new_folder_name # "" THEN issued + 1 ELSE issued
    /\ browser' = <<>>
    /\ pre' = session_state

\* "Add Link", main.py:332
AddLink ==
    /\ pc = "idle"
    /\ \E new_link \in UrlInputs, link_name \in LinkNameInputs, now \in Dates :
          LET draws == new_link # <<>> /\ link_name # ""
          IN  /\ draws => issued < MaxNodes
              /\ LET r == add_link(session_state, new_link, link_name, uuid4(issued), now)
                     run == script_run(r.ss)
                 IN  /\ Becomes(run.ss)
                     /\ pc' = run.pc
                     /\ call' = [op |-> "add_link", name |-> link_name, url |-> new_link,
                                 id |-> IF draws THEN uuid4(issued) ELSE "",
                                 ret |-> r.ret]
              /\ issued' = IF draws THEN issued + 1 ELSE issued
    /\ browser' = <<>>
    /\ pre' = session_state

\* the expand/collapse button of a folder row, main.py:235-237
ClickToggle ==
    /\ pc = "idle"
    /\ \E row \in page_rows(apply_pending_navigation(session_state)) :
          /\ row.node.type = "folder"
          /\ Becomes(click_toggle(apply_pending_navigation(session_state), row))
          /\ call' = [op |-> "toggle", id |-> row.node.id, path |-> row.path]
    /\ pc' = "rerun"
    /\ browser' = <<>>
    /\ pre' = session_state
    /\ UNCHANGED issued

\* the name button of a folder row, main.py:241-248
ClickFolder ==
    /\ pc = "idle"
    /\ \E row \in page_rows(apply_pending_navigation(session_state)) :
          /\ row.node.type = "folder"
          /\ row.node.id # "root"
          /\ Becomes(click_folder(apply_pending_navigation(session_state), row))
          /\ call' = [op |-> "folder", id |-> row.node.id, path |-> row.path]
    /\ pc' = "rerun"
    /\ browser' = <<>>
    /\ pre' = session_state
    /\ UNCHANGED issued

\* the delete button of a folder or link row, main.py:254-261, 300-306
ClickDelete ==
    /\ pc = "idle"
    /\ \E row \in page_rows(apply_pending_navigation(session_state)) :
          /\ row.node.type = "folder" => row.node.id # "root"
          /\ LET r == click_delete(apply_pending_navigation(session_state), row)
             IN  /\ Becomes(r.ss)
                 /\ pc' = IF r.ret = "KeyError" THEN "idle" ELSE "rerun"
                 /\ call' = [op |-> "delete", id |-> row.node.id, path |-> row.path,
                             ret |-> r.ret]
    /\ browser' = <<>>
    /\ pre' = session_state
    /\ UNCHANGED issued

\* the checkbox of a link row, main.py:274-286; the script then runs on
ClickCheckbox ==
    /\ pc = "idle"
    /\ \E row \in page_rows(apply_pending_navigation(session_state)) :
          /\ row.node.type = "link"
          /\ Becomes(click_checkbox(apply_pending_navigation(session_state), row))
          /\ call' = [op |-> "checkbox", id |-> row.node.id, path |-> row.path]
    /\ pc' = "idle"
    /\ browser' = <<>>
    /\ pre' = session_state
    /\ UNCHANGED issued

\* the name button of a link row, main.py:290-296; the script then runs on
ClickLink ==
    /\ pc = "idle"
    /\ \E row \in page_rows(apply_pending_navigation(session_state)),
          broken \in SUBSET UUIDs :
          /\ row.node.type = "link"
          /\ broken \subseteq {row.node.id}
          /\ Becomes(apply_pending_navigation(session_state))
          /\ browser' = <<open_new_tab(row.node, broken)>>
          /\ call' = [op |-> "link", id |-> row.node.id, path |-> row.path]
    /\ pc' = "idle"
    /\ pre' = session_state
    /\ UNCHANGED issued

\* a breadcrumb button, main.py:352-354
ClickBreadcrumb ==
    /\ pc = "idle"
    /\ \E button \in breadcrumb_buttons(apply_pending_navigation(session_state)) :
          /\ Becomes(set_navigate_path(apply_pending_navigation(session_state),
                                       button.path))
          /\ call' = [op |-> "breadcrumb", path |-> button.path]
    /\ pc' = "rerun"
    /\ browser' = <<>>
    /\ pre' = session_state
    /\ UNCHANGED issued

\* "Select All", main.py:384
SelectAll ==
    /\ pc = "idle"
    /\ LET run == script_run(select_all_links(session_state))
       IN  Becomes(run.ss) /\ pc' = run.pc
    /\ call' = [op |-> "select_all"]
    /\ browser' = <<>>
    /\ pre' = session_state
    /\ UNCHANGED issued

\* "Deselect All", main.py:386
DeselectAll ==
    /\ pc = "idle"
    /\ LET run == script_run(deselect_all_links(session_state))
       IN  Becomes(run.ss) /\ pc' = run.pc
    /\ call' = [op |-> "deselect_all"]
    /\ browser' = <<>>
    /\ pre' = session_state
    /\ UNCHANGED issued

\* "Connect to Selected", main.py:389-396: drawn only with a selection;
\* broken lists the selected links whose launch fails
OpenSelected ==
    /\ pc = "idle"
    /\ selected_links # {}
    /\ \E broken \in SUBSET (selected_links \cap UUIDs) :
          LET r == open_selected_links(session_state, broken)
              run == script_run(r.ss)
          IN  /\ Becomes(run.ss) /\ pc' = run.pc
              /\ browser' = r.opened
              /\ call' = [op |-> "open_selected", broken |-> broken, ret |-> r.ret]
    /\ pre' = session_state
    /\ UNCHANGED issued

\* the run that st.rerun() starts, main.py:182, 237, 261, 306
Rerun ==
    /\ pc = "rerun"
    /\ LET run == script_run(session_state)
       IN  Becomes(run.ss) /\ pc' = run.pc
    /\ call' = [op |-> "rerun"]
    /\ browser' = <<>>
    /\ pre' = session_state
    /\ UNCHANGED issued

Next ==
    \/ AddFolder
    \/ AddLink
    \/ ClickToggle
    \/ ClickFolder
    \/ ClickDelete
    \/ ClickCheckbox
    \/ ClickLink
    \/ ClickBreadcrumb
    \/ SelectAll
    \/ DeselectAll
    \/ OpenSelected
    \/ Rerun

Spec == Init /\ [][Next]_vars

\* st.rerun() ends the run and starts the next one at once (main.py:182,
\* 237, 261, 306): a rerun that is due is not put off for ever.
FairSpec == Spec /\ WF_vars(Rerun)

(***************************************************************************)
(* Vocabulary of the properties: the tree seen as a set of positions (the  *)
(* child indices from the root down), independent of the traversals above. *)
(***************************************************************************)
PathIds == {"root"} \cup UUIDs
Paths == UNION {[1..n -> PathIds] : n \in 0..MaxPathLen}

IsNode(r) == r.type \in {"folder", "link"}
IsFolder(r) == r.type = "folder"

RECURSIVE Positions(_)
Positions(node) ==
    {<<>>} \cup
    (IF "children" \in DOMAIN node
     THEN UNION {{<<i>> \o q : q \in Positions(node.children[i])} :
                    i \in 1..Len(node.children)}
     ELSE {})

RECURSIVE NodeAt(_, _)
NodeAt(node, pos) ==
    IF pos = <<>> THEN node ELSE NodeAt(node.children[Head(pos)], Tail(pos))

LinkPositions(tree) == {pos \in Positions(tree) : NodeAt(tree, pos).type = "link"}

\* the ids of the nodes of a subtree, of its links, and of a list of nodes
NodeIds(node) == {NodeAt(node, pos).id : pos \in Positions(node)}
LinkIds(node) == {NodeAt(node, pos).id : pos \in LinkPositions(node)}
SeqIds(nodes) == {nodes[i].id : i \in 1..Len(nodes)}

\* the ids of the direct children of what parent_path resolves to
ChildIds(ss, parent_path) ==
    LET parent == get_node_by_path(ss, parent_path)
    IN  IF IsNode(parent) /\ "children" \in DOMAIN parent
        THEN SeqIds(parent.children) ELSE {}

\* Pre-order on positions: p comes before q when p is a proper prefix of q
\* or p has the smaller index where they first differ.
Before(p, q) ==
    \/ Len(p) < Len(q) /\ \A j \in 1..Len(p) : p[j] = q[j]
    \/ \E k \in 1..Len(p) :
          /\ k <= Len(q)
          /\ p[k] < q[k]
          /\ \A j \in 1..(k - 1) : p[j] = q[j]

\* the place of a link position among the link positions, in pre-order
Rank(tree, pos) == Cardinality({q \in LinkPositions(tree) : Before(q, pos)}) + 1

\* a position of the node with this id
PositionOf(tree, id) == CHOOSE pos \in Positions(tree) : NodeAt(tree, pos).id = id

\* the path of ids that leads to a position
IdPath(tree, pos) ==
    <<"root">> \o [k \in 1..Len(pos) |-> NodeAt(tree, SubSeq(pos, 1, k)).id]

\* resolve as the specification words it (spec.md 4.1): NotFound, here
\* None, when the path is empty, does not start with "root", or has a
\* segment that is no direct child of the node reached so far (a link has
\* no children); the node addressed otherwise.
RECURSIVE resolve_from(_, _)
resolve_from(node, ids) ==
    IF ids = <<>> THEN node
    ELSE IF node.type # "folder" THEN None
    ELSE LET hits == {i \in 1..Len(node.children) : node.children[i].id = Head(ids)}
         IN  IF hits = {} THEN None
             ELSE resolve_from(node.children[CHOOSE i \in hits : \A j \in hits : i <= j],
                               Tail(ids))

resolve(ss, path) ==
    IF path = <<>> THEN None
    ELSE IF path[1] # "root" THEN None
    ELSE resolve_from(ss.link_tree, Rest(path))

\* nodes a press of "Create Folder" or "Add Link" could build with the id
NewNodes(id) ==
    {[id |-> id, name |-> "Work", type |-> "folder", children |-> <<>>,
      date_added |-> now] : now \in Dates}
    \cup
    {[id |-> id, name |-> "Docs", url |-> normalize_url(u), type |-> "link",
      date_added |-> now] : u \in UrlInputs \ {<<>>}, now \in Dates}

\* ids no node of the tree has
FreshIds(ss) == {UuidName[i] : i \in 1..(MaxNodes + 1)} \ NodeIds(ss.link_tree)

\* node without the node of this id anywhere below it
RECURSIVE Without(_, _)
Without(node, id) ==
    IF "children" \notin DOMAIN node THEN node
    ELSE LET kept == SelectSeq(node.children, LAMBDA c : c.id # id)
         IN  [node EXCEPT !.children = [i \in 1..Len(kept) |-> Without(kept[i], id)]]

\* how often the browser was asked for the link of this id
Occurrences(opened, id) == Cardinality({i \in 1..Len(opened) : opened[i].id = id})

\* the browser was asked once for each link that is selected and in the
\* tree, with that link's url, and for nothing else
OpensExactlySelected(ss, opened) ==
    /\ \A id \in PathIds \cup ss.selected_links :
          Occurrences(opened, id) =
              IF id \in ss.selected_links /\ id \in LinkIds(ss.link_tree) THEN 1 ELSE 0
    /\ \A i \in 1..Len(opened) :
          opened[i].url = NodeAt(ss.link_tree, PositionOf(ss.link_tree, opened[i].id)).url

\* a Python bool read as a number: True is 1 and False is 0
AsNumber(ret) == IF ret = "True" THEN 1 ELSE 0

(***************************************************************************)
(* The properties.  In those stated of a call the page makes, pre is the   *)
(* session state the step started in and call what the step did.           *)
(***************************************************************************)

\* C1.  Deleting a folder f, a child of the node at parentPath, with
\* delete_node(f.id, parentPath) leaves no link that was below f (at any
\* depth) among get_all_links(), and leaves none of those links' ids in
\* selected_links.  Stated of the delete_node calls the page makes.
C1_DeleteFolderDropsItsLinks ==
    (call.op = "delete" /\ call.ret = "True") =>
        LET parent == get_node_by_path(pre, delete_parent_path(call.path))
            i == child_index(parent, call.id)
        IN  (i # 0 /\ parent.children[i].type = "folder") =>
                /\ LinkIds(parent.children[i]) \cap SeqIds(get_all_links(session_state)) = {}
                /\ LinkIds(parent.children[i]) \cap selected_links = {}

\* The half of C1 that holds: after the delete none of the folder's links
\* is among get_all_links().
C1_DeletedLinksUnreachable ==
    (call.op = "delete" /\ call.ret = "True") =>
        LET parent == get_node_by_path(pre, delete_parent_path(call.path))
            i == child_index(parent, call.id)
        IN  (i # 0 /\ parent.children[i].type = "folder") =>
                LinkIds(parent.children[i]) \cap SeqIds(get_all_links(session_state)) = {}

\* C2.  delete_node(nodeId, parentPath) with nodeId not the id of a direct
\* child of the node parentPath resolves to is a no-op: the tree,
\* selected_links, expanded_folders and current_path stay as they were, also
\* when nodeId names a node under another parent.  Stated of the delete_node
\* calls the page makes.
C2_DeleteOfNonChildIsNoOp ==
    (call.op = "delete"
        /\ call.id \notin ChildIds(pre, delete_parent_path(call.path))) =>
        /\ link_tree = pre.link_tree
        /\ selected_links = pre.selected_links
        /\ expanded_folders = pre.expanded_folders
        /\ current_path = pre.current_path

\* C3.  delete_node is idempotent: for every node id and parent path,
\* delete_node(id, parentPath) applied twice in a row leaves the same tree,
\* the same selected_links and the same expanded_folders as applied once.
C3_DeleteIdempotent ==
    \A node_id \in PathIds, parent_path \in Paths :
        LET once == delete_node(session_state, node_id, parent_path)
            twice == delete_node(once.ss, node_id, parent_path)
        IN  /\ twice.ss.link_tree = once.ss.link_tree
            /\ twice.ss.selected_links = once.ss.selected_links
            /\ twice.ss.expanded_folders = once.ss.expanded_folders

\* C3 witness: a delete_node call of the page has removed a child that was
\* selected or expanded, and the same call again would change nothing.
C3_Witness ==
    /\ call.op = "delete"
    /\ call.ret = "True"
    /\ call.id \in ChildIds(pre, delete_parent_path(call.path))
    /\ call.id \notin NodeIds(link_tree)
    /\ call.id \in pre.selected_links \cup pre.expanded_folders
    /\ delete_node(session_state, call.id, delete_parent_path(call.path)).ss
         = session_state

\* C4.  Insert/resolve round trip: for every path p that resolves (starts
\* at "root" and leads) to a folder and every new node n with a fresh id,
\* add_node(p, n) succeeds, get_node_by_path(p + [n.id]) then returns a node
\* equal to n field by field, and every path that resolved before resolves
\* afterwards to the same node (the same but for n below it).
C4_InsertResolveRoundTrip ==
    \A p \in Paths :
        IsFolder(resolve(session_state, p)) =>
            \A id \in FreshIds(session_state) : \A n \in NewNodes(id) :
                LET r == add_node(session_state, p, n)
                IN  /\ r.ret = "True"
                    /\ get_node_by_path(r.ss, Append(p, n.id)) = n
                    /\ \A q \in Paths :
                          LET before == get_node_by_path(session_state, q)
                              after == get_node_by_path(r.ss, q)
                          IN  IsNode(before) =>
                                /\ IsNode(after)
                                /\ Without(after, n.id) = before
                                /\ q # p => (after = before
                                             \/ n.id \in NodeIds(after))
                                /\ q = p => after.children = Append(before.children, n)

\* C4 witness: "Add Link" has put a link into a folder below the root, and
\* the folder's path extended by the new id resolves to that link.
C4_Witness ==
    /\ call.op = "add_link"
    /\ call.ret = "True"
    /\ Len(pre.current_path) >= 2
    /\ IsFolder(resolve(pre, pre.current_path))
    /\ call.id \notin NodeIds(pre.link_tree)
    /\ LET n == get_node_by_path(session_state, Append(pre.current_path, call.id))
       IN  IsNode(n) /\ n.id = call.id /\ n.type = "link"
                     /\ n.url = normalize_url(call.url)

\* C5.  Insert fails without mutation when the parent is not a folder:
\* add_node(parentPath, node) with a parentPath that does not resolve, or
\* resolves to a link, reports failure (returns False) and leaves the whole
\* tree as it was.
C5_InsertUnderNonFolderFails ==
    \A p \in Paths :
        ~IsFolder(resolve(session_state, p)) =>
            \A id \in FreshIds(session_state) : \A n \in NewNodes(id) :
                LET r == add_node(session_state, p, n)
                IN  r.ret = "False" /\ r.ss.link_tree = link_tree

\* The part of C5 that holds: a parent path that get_node_by_path takes to a
\* link, or to None, gives False and an unchanged session state.
C5_InsertUnderLinkFails ==
    \A p \in Paths :
        LET parent == get_node_by_path(session_state, p)
        IN  (parent = None \/ parent.type = "link") =>
                \A id \in FreshIds(session_state) : \A n \in NewNodes(id) :
                    LET r == add_node(session_state, p, n)
                    IN  r.ret = "False" /\ r.ss = session_state

\* C6.  get_node_by_path returns NotFound (None: not a node, not an
\* exception) for every path that is empty, does not start with "root", or
\* has a segment that is not the id of a direct child of the node reached so
\* far, a link, which has no children, included; and returns the addressed
\* node for every other path.
C6_ResolveNotFound ==
    \A p \in Paths : get_node_by_path(session_state, p) = resolve(session_state, p)

\* The part of C6 that holds: paths that start with "root" and do not run on
\* below a link.
C6_ResolveRootedPaths ==
    \A p \in Paths :
        (p # <<>> /\ p[1] = "root"
            /\ get_node_by_path(session_state, p) # KeyError) =>
            get_node_by_path(session_state, p) = resolve(session_state, p)

\* C7.  On a tree with k link nodes in total, at any depth, get_all_links()
\* returns exactly k items with pairwise distinct ids, in depth-first
\* pre-order, the children of each folder in their stored order.
C7_AllLinksPreOrder ==
    LET all_links == get_all_links(session_state)
    IN  /\ Len(all_links) = Cardinality(LinkPositions(link_tree))
        /\ \A i, j \in 1..Len(all_links) : i # j => all_links[i].id # all_links[j].id
        /\ \A pos \in LinkPositions(link_tree) :
              all_links[Rank(link_tree, pos)] = NodeAt(link_tree, pos)

\* C7 witness: "Select All" has collected the links of a tree in which a
\* link inside a folder comes before a link beside that folder.
C7_Witness ==
    /\ call.op = "select_all"
    /\ selected_links = LinkIds(link_tree)
    /\ \E p, q \in LinkPositions(link_tree) : Len(p) > Len(q) /\ Before(p, q)

\* C8, amended.  open_selected_links passes to the browser exactly the links
\* whose id is in the selection set and in the tree, each once, with the
\* link's url; selected ids without a node are skipped and an empty
\* selection opens nothing.  It returns True when the selection set is not
\* empty and False when it is.
C8_OpensSelectedReturnsFlag ==
    \A broken \in SUBSET UUIDs :
        LET r == open_selected_links(session_state, broken)
        IN  /\ OpensExactlySelected(session_state, r.opened)
            /\ r.ret = IF selected_links # {} THEN "True" ELSE "False"
            /\ selected_links = {} => r.opened = <<>>

\* C8 as claimed.  open_selected_links opens exactly the links whose id is
\* in the selection set and in the tree, each once, and returns the number
\* of links opened.
C8_OpensSelectedReturnsCount ==
    \A broken \in SUBSET UUIDs :
        LET r == open_selected_links(session_state, broken)
        IN  /\ OpensExactlySelected(session_state, r.opened)
            /\ AsNumber(r.ret) = Len(r.opened)

\* C8 witness: "Connect to Selected" has opened a link while the selection
\* also held the id of a node no longer in the tree.
C8_Witness ==
    /\ call.op = "open_selected"
    /\ call.ret = "True"
    /\ Len(browser) >= 1
    /\ \E id \in pre.selected_links : id \notin NodeIds(pre.link_tree)
    /\ OpensExactlySelected(pre, browser)

\* C9.  A failed browser launch does not end the batch: when opening the
\* url of one selected link fails, every selected link later in traversal
\* order is still passed to the browser, and the tree, the selection set and
\* the navigation state are left as they were.
C9_LaunchFailureDoesNotAbort ==
    /\ \A broken \in SUBSET UUIDs :
          LET r == open_selected_links(session_state, broken)
          IN  /\ r.ss = session_state
              /\ \A i \in 1..Len(r.opened) :
                    ~r.opened[i].ok =>
                        \A pos \in LinkPositions(link_tree) :
                            (/\ NodeAt(link_tree, pos).id \in selected_links
                             /\ Before(PositionOf(link_tree, r.opened[i].id), pos)) =>
                                \E j \in (i + 1)..Len(r.opened) :
                                    r.opened[j].id = NodeAt(link_tree, pos).id
    /\ call.op = "open_selected" => session_state = pre

\* C9 witness: "Connect to Selected" went on to a second link after the
\* launch of the first had failed, and changed nothing in the session.
C9_Witness ==
    /\ call.op = "open_selected"
    /\ Len(browser) >= 2
    /\ ~browser[1].ok
    /\ browser[1].id \in call.broken
    /\ session_state = pre

\* C10.  Tree well-formedness holds in every state the page reaches by
\* creating folders and links, deleting, navigating, toggling and selecting:
\* the root has id "root" and type folder, node ids are pairwise distinct
\* over the whole tree, every node below the root has one parent, so that
\* exactly one path from "root" resolves to it, and only folders have
\* children.
C10_TreeWellFormed ==
    /\ link_tree.id = "root"
    /\ link_tree.type = "folder"
    /\ \A pos \in Positions(link_tree) :
          LET node == NodeAt(link_tree, pos)
          IN  /\ node.type \in {"folder", "link"}
              /\ ("children" \in DOMAIN node) <=> (node.type = "folder")
              /\ \A other \in Positions(link_tree) :
                    NodeAt(link_tree, other).id = node.id => other = pos
              /\ get_node_by_path(session_state, IdPath(link_tree, pos)) = node
    /\ \A q \in Paths :
          (q # <<>> /\ q[1] = "root" /\ IsNode(get_node_by_path(session_state, q))) =>
              q = IdPath(link_tree,
                         PositionOf(link_tree, get_node_by_path(session_state, q).id))

\* C10 witness: a delete has removed a node from a tree that still holds a
\* link inside a folder, after every id of the model was handed out.
C10_Witness ==
    /\ call.op = "delete"
    /\ call.ret = "True"
    /\ call.id \in NodeIds(pre.link_tree)
    /\ call.id \notin NodeIds(link_tree)
    /\ issued = MaxNodes
    /\ \E pos \in LinkPositions(link_tree) : Len(pos) = 2

\* C11.  The selection operations reach the state asked for and are
\* idempotent: select_all_links makes selected_links exactly the ids of the
\* links in the tree, deselect_all_links makes it empty, a checkbox that
\* answers checked puts its link's id in and one that answers unchecked
\* takes it out, other ids untouched; each of them applied again changes
\* nothing; and none of them changes the tree, current_path or
\* expanded_folders.
C11_SelectionOperations ==
    LET Frame(s) == /\ s.link_tree = link_tree
                    /\ s.current_path = current_path
                    /\ s.expanded_folders = expanded_folders
                    /\ s.navigate_to_path = navigate_to_path
        all == select_all_links(session_state)
        none == deselect_all_links(session_state)
    IN  /\ all.selected_links = LinkIds(link_tree)
        /\ select_all_links(all) = all
        /\ Frame(all)
        /\ none.selected_links = {}
        /\ deselect_all_links(none) = none
        /\ Frame(none)
        /\ \A pos \in LinkPositions(link_tree) : \A checked \in BOOLEAN :
              LET node == NodeAt(link_tree, pos)
                  s == checkbox(session_state, node, checked)
              IN  /\ (node.id \in s.selected_links) <=> checked
                  /\ s.selected_links \ {node.id} = selected_links \ {node.id}
                  /\ checkbox(s, node, checked) = s
                  /\ Frame(s)
        /\ call.op = "select_all" =>
              /\ selected_links = LinkIds(link_tree)
              /\ link_tree = pre.link_tree
              /\ current_path = pre.current_path
              /\ expanded_folders = pre.expanded_folders
        /\ call.op = "deselect_all" =>
              /\ selected_links = {}
              /\ link_tree = pre.link_tree
              /\ current_path = pre.current_path
              /\ expanded_folders = pre.expanded_folders
        /\ call.op = "checkbox" =>
              /\ (call.id \in selected_links) <=> (call.id \notin pre.selected_links)
              /\ link_tree = pre.link_tree
              /\ current_path = pre.current_path
              /\ expanded_folders = pre.expanded_folders

\* C11 witness: "Select All" has replaced a selection that held the id of a
\* node no longer in the tree and lacked a link of the tree.
C11_Witness ==
    /\ call.op = "select_all"
    /\ \E id \in pre.selected_links : id \notin NodeIds(pre.link_tree)
    /\ \E id \in LinkIds(pre.link_tree) : id \notin pre.selected_links
    /\ selected_links = LinkIds(link_tree)

\* the paths of the data model: sequences of ids that start with "root"
RootedPaths == {p \in Paths : p # <<>> /\ p[1] = "root"}

\* C12.  navigate_to(path), for a path that starts with "root", sets
\* current_path to exactly path and makes expanded_folders its previous
\* value united with the ids of path other than "root", removing nothing,
\* and leaves the tree and the selection set as they were.  A navigation
\* asked for through set_navigate_path is applied once, by the next run of
\* the script, which clears the request: a further run does not apply it
\* again.
C12_NavigateTo ==
    /\ \A path \in RootedPaths :
          LET s == navigate_to(session_state, path)
              asked == set_navigate_path(session_state, path)
              applied == apply_pending_navigation(asked)
          IN  /\ s.current_path = path
              /\ s.expanded_folders =
                    expanded_folders \cup ({path[i] : i \in 1..Len(path)} \ {"root"})
              /\ s.link_tree = link_tree
              /\ s.selected_links = selected_links
              /\ asked = [session_state EXCEPT !.navigate_to_path = SomePath(path)]
              /\ applied = [s EXCEPT !.navigate_to_path = NoPath]
              /\ apply_pending_navigation(applied) = applied
    /\ (call.op = "rerun" /\ pre.navigate_to_path # NoPath) =>
          LET path == pre.navigate_to_path[1]
          IN  /\ current_path = path
              /\ expanded_folders =
                    pre.expanded_folders \cup ({path[i] : i \in 1..Len(path)} \ {"root"})
              /\ link_tree = pre.link_tree
              /\ selected_links = pre.selected_links
              \* cleared, unless path leads nowhere and main.py:376 asks anew
              /\ \/ navigate_to_path = NoPath
                 \/ /\ get_node_by_path(session_state, path) = None
                    /\ navigate_to_path = SomePath(<<"root">>)
                    /\ pc = "rerun"
    /\ pc = "idle" => navigate_to_path = NoPath

\* C12 witness: the rerun after a click on a folder's name has made the
\* requested path the current one, expanded a folder that was collapsed,
\* and cleared the request.
C12_Witness ==
    /\ call.op = "rerun"
    /\ pre.navigate_to_path # NoPath
    /\ Len(pre.navigate_to_path[1]) >= 2
    /\ current_path = pre.navigate_to_path[1]
    /\ current_path # pre.current_path
    /\ \E id \in expanded_folders : id \notin pre.expanded_folders
    /\ \E id \in pre.expanded_folders \ {"root"} : id \notin {current_path[i] : i \in 1..Len(current_path)}
    /\ navigate_to_path = NoPath

\* The names the walk of a breadcrumb collects below node, as the claim
\* words it: the name of each id that is a child of the node reached so
\* far, ids that are not (a link has no children) skipped.
RECURSIVE NamesAlong(_, _)
NamesAlong(node, ids) ==
    IF ids = <<>> THEN <<>>
    ELSE LET hits == IF node.type = "folder"
                     THEN {i \in 1..Len(node.children) : node.children[i].id = Head(ids)}
                     ELSE {}
         IN  IF hits = {} THEN NamesAlong(node, Tail(ids))
             ELSE LET child == node.children[CHOOSE i \in hits : \A j \in hits : i <= j]
                  IN  <<child.name>> \o NamesAlong(child, Tail(ids))

\* a valid path (spec.md 3): from "root", each further id names a
\* folder-type child of the node before it
ValidPath(ss, path) ==
    /\ path # <<>>
    /\ path[1] = "root"
    /\ \A i \in 1..Len(path) : IsFolder(resolve(ss, SubSeq(path, 1, i)))

\* C13.  get_breadcrumb_names(path) returns "Root" followed by the name of
\* each id of path[1:] that resolves as a child of the node resolved last,
\* ids that do not resolve silently skipped; so for a valid path of length
\* n the result has length n, its i-th entry is the name of the node at
\* path[0:i], and the names pair off with get_breadcrumb_paths(path).
C13_BreadcrumbNames ==
    \A path \in RootedPaths :
        LET names == get_breadcrumb_names(session_state, path)
        IN  /\ names = <<"Root">> \o NamesAlong(link_tree, Rest(path))
            /\ ValidPath(session_state, path) =>
                  /\ Len(names) = Len(path)
                  /\ Len(names) = Len(get_breadcrumb_paths(path))
                  /\ \A i \in 1..Len(path) :
                        names[i] = resolve(session_state,
                                           get_breadcrumb_paths(path)[i]).name

\* The part of C13 that holds: paths that do not run on below a link.
C13_BreadcrumbNamesBelowFolders ==
    \A path \in RootedPaths :
        LET names == get_breadcrumb_names(session_state, path)
        IN  /\ names # <<"KeyError">> =>
                  names = <<"Root">> \o NamesAlong(link_tree, Rest(path))
            /\ ValidPath(session_state, path) =>
                  /\ Len(names) = Len(path)
                  /\ Len(names) = Len(get_breadcrumb_paths(path))
                  /\ \A i \in 1..Len(path) :
                        names[i] = resolve(session_state,
                                           get_breadcrumb_paths(path)[i]).name
            /\ names = <<"KeyError">> =>
                  \E i \in 2..(Len(path) - 1) :
                      resolve(session_state, SubSeq(path, 1, i)).type = "link"

\* C14.  For every path of length n, get_breadcrumb_paths(path) returns
\* exactly n prefixes in increasing length, the i-th being path[0:i] for
\* i = 1..n, so that the last one is path itself; checked for the current
\* path of the page and for every sequence of ids up to MaxPathLen.
C14_BreadcrumbPaths ==
    \A path \in Paths \cup {current_path} :
        LET paths == get_breadcrumb_paths(path)
            n == Len(path)
        IN  /\ Len(paths) = n
            /\ \A i \in 1..n :
                  /\ Len(paths[i]) = i
                  /\ \A j \in 1..i : paths[i][j] = path[j]
            /\ n > 0 => paths[n] = path
            /\ path = <<"root", "u1", "u2">> =>
                  paths = << <<"root">>, <<"root", "u1">>, <<"root", "u1", "u2">> >>

\* C14 witness: a click on the middle breadcrumb of a current path of
\* length three has asked for the prefix of length two.
C14_Witness ==
    /\ call.op = "breadcrumb"
    /\ Len(pre.current_path) = 3
    /\ ValidPath(pre, pre.current_path)
    /\ call.path = SubSeq(pre.current_path, 1, 2)
    /\ call.path = get_breadcrumb_paths(pre.current_path)[2]
    /\ navigate_to_path = SomePath(call.path)

\* the positions of the folders strictly below the root
FolderPositions(tree) ==
    {pos \in Positions(tree) : pos # <<>> /\ NodeAt(tree, pos).type = "folder"}

\* C15.  For every reachable tree, count_all_folders() is the number of
\* folder-type nodes at any depth strictly below the root: the root is not
\* counted, and a folder inside another folder is counted once.
C15_CountAllFolders ==
    count_all_folders(session_state) = Cardinality(FolderPositions(link_tree))

\* C15 witness: the page shows the statistics of a tree with a folder
\* inside a folder and a link, and counts two folders.
C15_Witness ==
    /\ pc = "idle"
    /\ \E pos \in FolderPositions(link_tree) : Len(pos) = 2
    /\ LinkPositions(link_tree) # {}
    /\ count_all_folders(session_state) = 2

\* the path of the parent of the node with this id
ParentPath(tree, id) ==
    LET pos == PositionOf(tree, id)
    IN  IdPath(tree, SubSeq(pos, 1, Len(pos) - 1))

\* C16.  The delete button removes the node it is shown for: whatever the
\* current path, and whether the node is a direct child of the current
\* folder or shown inside an expanded folder, the click calls delete_node
\* with the path of the node's parent, and afterwards the node is not in
\* the tree.
C16_DeleteButtonRemovesItsNode ==
    call.op = "delete" =>
        /\ delete_parent_path(call.path) = ParentPath(pre.link_tree, call.id)
        /\ call.ret = "True"
        /\ call.id \notin NodeIds(link_tree)

\* The part of C16 that holds: the delete button of a direct child of the
\* root, shown with the root as the current folder.
C16_DeleteButtonAtRoot ==
    (call.op = "delete" /\ call.path = <<"root">>) =>
        /\ pre.current_path = <<"root">>
        /\ delete_parent_path(call.path) = ParentPath(pre.link_tree, call.id)
        /\ call.ret = "True"
        /\ call.id \notin NodeIds(link_tree)

\* C17.  A click on a folder's name button navigates into that folder:
\* for every folder render_tree draws, a direct child of the current folder
\* or one inside an expanded folder, after the click and the rerun that
\* follows it current_path is a valid path that resolves to that folder.
C17_FolderClickNavigatesIntoFolder ==
    [][call.op = "folder" =>
          /\ ValidPath(session_state', current_path')
          /\ resolve(session_state', current_path').id = call.id]_vars

\* The part of C17 that holds: the name button of a direct child of the
\* current folder.
C17_ChildFolderClickNavigates ==
    [][(call.op = "folder" /\ call.path = pre.current_path) =>
          /\ ValidPath(session_state', current_path')
          /\ resolve(session_state', current_path').id = call.id]_vars

\* the current path leads to no node
StalePath == get_node_by_path(session_state, current_path) = None

\* C18.  Stale-path recovery: a run of the script that finds current_path
\* resolving to no node asks for navigation to ["root"] and a rerun, so
\* that, reruns being taken fairly, the page reaches a state with
\* current_path = ["root"] and no pending navigation; the tree and the
\* selection set are not changed on the way.
C18_StalePathRecovery ==
    /\ [](StalePath => (navigate_to_path = SomePath(<<"root">>) /\ pc = "rerun"))
    /\ StalePath ~> (current_path = <<"root">> /\ navigate_to_path = NoPath
                                               /\ pc = "idle")
    /\ [][StalePath => (link_tree' = link_tree /\ selected_links' = selected_links)]_vars

\* C18 witness: a rerun has brought the page back to the root from a
\* current path that led nowhere, with a link selected and the tree and
\* the selection as before.
C18_Witness ==
    /\ call.op = "rerun"
    /\ get_node_by_path(pre, pre.current_path) = None
    /\ pre.navigate_to_path = SomePath(<<"root">>)
    /\ current_path = <<"root">>
    /\ navigate_to_path = NoPath
    /\ pc = "idle"
    /\ selected_links # {}
    /\ link_tree = pre.link_tree
    /\ selected_links = pre.selected_links

\* C19.  expanded_folders never holds a dangling or non-folder id: in every
\* state reached by creating, deleting, navigating and toggling, each of
\* its elements is "root" or the id of a folder now in the tree; deleting a
\* folder takes the ids of the folders below it out as well.
C19_ExpandedFoldersAreFolders ==
    \A id \in expanded_folders :
        \/ id = "root"
        \/ \E pos \in FolderPositions(link_tree) : NodeAt(link_tree, pos).id = id

\* The part of C19 that holds: no id of a link is ever in expanded_folders,
\* and the root always is.
C19_ExpandedFoldersHoldNoLink ==
    /\ "root" \in expanded_folders
    /\ expanded_folders \cap LinkIds(link_tree) = {}

\* C20.  Deletion never invalidates the current location: a delete started
\* from a delete button the page draws leaves current_path as it was, and a
\* current_path that started with "root" and resolved to a folder before
\* the delete still does afterwards; the rows the page draws, and so the
\* delete buttons, are those of nodes below the current folder, never of
\* the current folder or a folder above it, and what a delete removes was
\* below the current folder.
C20_DeleteKeepsCurrentLocation ==
    /\ call.op = "delete" =>
          /\ current_path = pre.current_path
          /\ (pre.current_path[1] = "root"
                 /\ IsFolder(resolve(pre, pre.current_path))) =>
                /\ IsFolder(resolve(session_state, current_path))
                /\ IsFolder(get_node_by_path(session_state, current_path))
                /\ resolve(session_state, current_path).id
                     = resolve(pre, pre.current_path).id
          /\ NodeIds(pre.link_tree) \ NodeIds(link_tree)
                \subseteq NodeIds(get_node_by_path(pre, pre.current_path))
                            \ {pre.current_path[i] : i \in 1..Len(pre.current_path)}
    /\ \A row \in page_rows(session_state) :
          /\ row.node.id \notin {current_path[i] : i \in 1..Len(current_path)}
          /\ row.node.id \in NodeIds(get_node_by_path(session_state, current_path))

\* C20 witness: the delete button of a folder that holds another node has
\* removed it from the tree, and the current path is as before and leads
\* to a folder.
C20_Witness ==
    /\ call.op = "delete"
    /\ call.ret = "True"
    /\ Cardinality(NodeIds(pre.link_tree) \ NodeIds(link_tree)) >= 2
    /\ NodeIds(link_tree) # {"root"}
    /\ current_path = pre.current_path
    /\ IsFolder(resolve(session_state, current_path))

====
